---- MODULE Spec2Model ----
(***************************************************************************)
(* Model of horton/moments.py: the Cartesian power enumerator              *)
(* (get_cartesian_powers), the shell-size arithmetic (get_ncart,           *)
(* get_ncart_cumul, get_npure, get_npure_cumul), the rotation rule table   *)
(* (cartesian_transforms) and the rotation engine                          *)
(* (rotate_cartesian_moments, rotate_moments_low).                         *)
(*                                                                         *)
(* Python sequences are 0-based; a Python index k is the TLA+ index k+1.   *)
(* The table keeps the source's 0-based moment indexes and matrix indexes. *)
(* Moments and matrix entries are small integers, on which the floating    *)
(* point arithmetic of the source is exact.                                *)
(***************************************************************************)
EXTENDS Integers, Sequences, FiniteSets

\* Largest lmax passed to the enumerator and the size functions.
MaxLmax == 4

\* Shell indexes down to -NegRange are passed to the enumerator and the
\* size functions.
NegRange == 5

\* Longest moment vector passed to rotate_cartesian_moments.
MaxLen == 36

\* Longest moment vector passed by the concurrent callers.
MaxConcLen == 4

(***************************************************************************)
(* Shell-size arithmetic.  The "/" of the source is Python 2 integer       *)
(* division on ints, i.e. floor division, which is \div.                   *)
(***************************************************************************)
get_ncart_halved_first(l) == ((l + 2) \div 2) * (l + 1)

get_ncart(l) == ((l + 2) * (l + 1)) \div 2

get_ncart_cumul(lmax) == ((lmax + 1) * (lmax + 2) * (lmax + 3)) \div 6

get_npure(l) == 2 * l + 1

get_npure_cumul_linear(lmax) == (lmax + 1) * 2

get_npure_cumul(lmax) == (lmax + 1) * (lmax + 1)

(***************************************************************************)
(* The rotation rule table, as tabulated in the source.  Item i+1 holds    *)
(* the rules of the moment with global index i; a rule is                  *)
(* <<source moment index, coefficient, matrix indexes...>>.                *)
(***************************************************************************)
cartesian_transforms_through_p ==
  <<
    << <<0, 1>> >>,
    << <<1, 1, 0>>,
       <<2, 1, 1>>,
       <<3, 1, 2>> >>,
    << <<1, 1, 3>>,
       <<2, 1, 4>>,
       <<3, 1, 5>> >>,
    << <<1, 1, 6>>,
       <<2, 1, 7>>,
       <<3, 1, 8>> >>
  >>

cartesian_transforms_coupled ==
  <<
    << <<0, 1>> >>,
    << <<0, 1, 0>>,
       <<2, 1, 1>>,
       <<3, 1, 2>> >>,
    << <<1, 1, 3>>,
       <<2, 1, 4>>,
       <<3, 1, 5>> >>,
    << <<1, 1, 6>>,
       <<2, 1, 7>>,
       <<3, 1, 8>> >>
  >>

cartesian_transforms ==
  <<
    << <<0, 1>> >>,
    << <<1, 1, 0>>,
       <<2, 1, 1>>,
       <<3, 1, 2>> >>,
    << <<1, 1, 3>>,
       <<2, 1, 4>>,
       <<3, 1, 5>> >>,
    << <<1, 1, 6>>,
       <<2, 1, 7>>,
       <<3, 1, 8>> >>,
    << <<4, 1, 0, 0>>,
       <<5, 2, 0, 1>>,
       <<6, 2, 0, 2>>,
       <<7, 1, 1, 1>>,
       <<8, 2, 1, 2>>,
       <<9, 1, 2, 2>> >>,
    << <<4, 1, 0, 3>>,
       <<5, 1, 1, 3>>,
       <<5, 1, 0, 4>>,
       <<6, 1, 2, 3>>,
       <<6, 1, 0, 5>>,
       <<7, 1, 1, 4>>,
       <<8, 1, 2, 4>>,
       <<8, 1, 1, 5>>,
       <<9, 1, 2, 5>> >>,
    << <<4, 1, 0, 6>>,
       <<5, 1, 1, 6>>,
       <<5, 1, 0, 7>>,
       <<6, 1, 2, 6>>,
       <<6, 1, 0, 8>>,
       <<7, 1, 1, 7>>,
       <<8, 1, 2, 7>>,
       <<8, 1, 1, 8>>,
       <<9, 1, 2, 8>> >>,
    << <<4, 1, 3, 3>>,
       <<5, 2, 3, 4>>,
       <<6, 2, 3, 5>>,
       <<7, 1, 4, 4>>,
       <<8, 2, 4, 5>>,
       <<9, 1, 5, 5>> >>,
    << <<4, 1, 3, 6>>,
       <<5, 1, 4, 6>>,
       <<5, 1, 3, 7>>,
       <<6, 1, 5, 6>>,
       <<6, 1, 3, 8>>,
       <<7, 1, 4, 7>>,
       <<8, 1, 5, 7>>,
       <<8, 1, 4, 8>>,
       <<9, 1, 5, 8>> >>,
    << <<4, 1, 6, 6>>,
       <<5, 2, 6, 7>>,
       <<6, 2, 6, 8>>,
       <<7, 1, 7, 7>>,
       <<8, 2, 7, 8>>,
       <<9, 1, 8, 8>> >>,
    << <<10, 1, 0, 0, 0>>,
       <<11, 3, 0, 0, 1>>,
       <<12, 3, 0, 0, 2>>,
       <<13, 3, 0, 1, 1>>,
       <<14, 6, 0, 1, 2>>,
       <<15, 3, 0, 2, 2>>,
       <<16, 1, 1, 1, 1>>,
       <<17, 3, 1, 1, 2>>,
       <<18, 3, 1, 2, 2>>,
       <<19, 1, 2, 2, 2>> >>,
    << <<10, 1, 0, 0, 3>>,
       <<11, 1, 0, 0, 4>>,
       <<11, 2, 0, 1, 3>>,
       <<12, 1, 0, 0, 5>>,
       <<12, 2, 0, 2, 3>>,
       <<13, 1, 1, 1, 3>>,
       <<13, 2, 0, 1, 4>>,
       <<14, 2, 1, 2, 3>>,
       <<14, 2, 0, 2, 4>>,
       <<14, 2, 0, 1, 5>>,
       <<15, 1, 2, 2, 3>>,
       <<15, 2, 0, 2, 5>>,
       <<16, 1, 1, 1, 4>>,
       <<17, 1, 1, 1, 5>>,
       <<17, 2, 1, 2, 4>>,
       <<18, 1, 2, 2, 4>>,
       <<18, 2, 1, 2, 5>>,
       <<19, 1, 2, 2, 5>> >>,
    << <<10, 1, 0, 0, 6>>,
       <<11, 1, 0, 0, 7>>,
       <<11, 2, 0, 1, 6>>,
       <<12, 1, 0, 0, 8>>,
       <<12, 2, 0, 2, 6>>,
       <<13, 1, 1, 1, 6>>,
       <<13, 2, 0, 1, 7>>,
       <<14, 2, 1, 2, 6>>,
       <<14, 2, 0, 2, 7>>,
       <<14, 2, 0, 1, 8>>,
       <<15, 1, 2, 2, 6>>,
       <<15, 2, 0, 2, 8>>,
       <<16, 1, 1, 1, 7>>,
       <<17, 1, 1, 1, 8>>,
       <<17, 2, 1, 2, 7>>,
       <<18, 1, 2, 2, 7>>,
       <<18, 2, 1, 2, 8>>,
       <<19, 1, 2, 2, 8>> >>,
    << <<10, 1, 0, 3, 3>>,
       <<11, 1, 1, 3, 3>>,
       <<11, 2, 0, 3, 4>>,
       <<12, 1, 2, 3, 3>>,
       <<12, 2, 0, 3, 5>>,
       <<13, 1, 0, 4, 4>>,
       <<13, 2, 1, 3, 4>>,
       <<14, 2, 2, 3, 4>>,
       <<14, 2, 1, 3, 5>>,
       <<14, 2, 0, 4, 5>>,
       <<15, 1, 0, 5, 5>>,
       <<15, 2, 2, 3, 5>>,
       <<16, 1, 1, 4, 4>>,
       <<17, 1, 2, 4, 4>>,
       <<17, 2, 1, 4, 5>>,
       <<18, 1, 1, 5, 5>>,
       <<18, 2, 2, 4, 5>>,
       <<19, 1, 2, 5, 5>> >>,
    << <<10, 1, 0, 3, 6>>,
       <<11, 1, 1, 3, 6>>,
       <<11, 1, 0, 4, 6>>,
       <<11, 1, 0, 3, 7>>,
       <<12, 1, 2, 3, 6>>,
       <<12, 1, 0, 5, 6>>,
       <<12, 1, 0, 3, 8>>,
       <<13, 1, 1, 4, 6>>,
       <<13, 1, 1, 3, 7>>,
       <<13, 1, 0, 4, 7>>,
       <<14, 1, 2, 4, 6>>,
       <<14, 1, 2, 3, 7>>,
       <<14, 1, 1, 5, 6>>,
       <<14, 1, 1, 3, 8>>,
       <<14, 1, 0, 5, 7>>,
       <<14, 1, 0, 4, 8>>,
       <<15, 1, 2, 5, 6>>,
       <<15, 1, 2, 3, 8>>,
       <<15, 1, 0, 5, 8>>,
       <<16, 1, 1, 4, 7>>,
       <<17, 1, 2, 4, 7>>,
       <<17, 1, 1, 5, 7>>,
       <<17, 1, 1, 4, 8>>,
       <<18, 1, 2, 5, 7>>,
       <<18, 1, 2, 4, 8>>,
       <<18, 1, 1, 5, 8>>,
       <<19, 1, 2, 5, 8>> >>,
    << <<10, 1, 0, 6, 6>>,
       <<11, 1, 1, 6, 6>>,
       <<11, 2, 0, 6, 7>>,
       <<12, 1, 2, 6, 6>>,
       <<12, 2, 0, 6, 8>>,
       <<13, 1, 0, 7, 7>>,
       <<13, 2, 1, 6, 7>>,
       <<14, 2, 2, 6, 7>>,
       <<14, 2, 1, 6, 8>>,
       <<14, 2, 0, 7, 8>>,
       <<15, 1, 0, 8, 8>>,
       <<15, 2, 2, 6, 8>>,
       <<16, 1, 1, 7, 7>>,
       <<17, 1, 2, 7, 7>>,
       <<17, 2, 1, 7, 8>>,
       <<18, 1, 1, 8, 8>>,
       <<18, 2, 2, 7, 8>>,
       <<19, 1, 2, 8, 8>> >>,
    << <<10, 1, 3, 3, 3>>,
       <<11, 3, 3, 3, 4>>,
       <<12, 3, 3, 3, 5>>,
       <<13, 3, 3, 4, 4>>,
       <<14, 6, 3, 4, 5>>,
       <<15, 3, 3, 5, 5>>,
       <<16, 1, 4, 4, 4>>,
       <<17, 3, 4, 4, 5>>,
       <<18, 3, 4, 5, 5>>,
       <<19, 1, 5, 5, 5>> >>,
    << <<10, 1, 3, 3, 6>>,
       <<11, 1, 3, 3, 7>>,
       <<11, 2, 3, 4, 6>>,
       <<12, 1, 3, 3, 8>>,
       <<12, 2, 3, 5, 6>>,
       <<13, 1, 4, 4, 6>>,
       <<13, 2, 3, 4, 7>>,
       <<14, 2, 4, 5, 6>>,
       <<14, 2, 3, 5, 7>>,
       <<14, 2, 3, 4, 8>>,
       <<15, 1, 5, 5, 6>>,
       <<15, 2, 3, 5, 8>>,
       <<16, 1, 4, 4, 7>>,
       <<17, 1, 4, 4, 8>>,
       <<17, 2, 4, 5, 7>>,
       <<18, 1, 5, 5, 7>>,
       <<18, 2, 4, 5, 8>>,
       <<19, 1, 5, 5, 8>> >>,
    << <<10, 1, 3, 6, 6>>,
       <<11, 1, 4, 6, 6>>,
       <<11, 2, 3, 6, 7>>,
       <<12, 1, 5, 6, 6>>,
       <<12, 2, 3, 6, 8>>,
       <<13, 1, 3, 7, 7>>,
       <<13, 2, 4, 6, 7>>,
       <<14, 2, 5, 6, 7>>,
       <<14, 2, 4, 6, 8>>,
       <<14, 2, 3, 7, 8>>,
       <<15, 1, 3, 8, 8>>,
       <<15, 2, 5, 6, 8>>,
       <<16, 1, 4, 7, 7>>,
       <<17, 1, 5, 7, 7>>,
       <<17, 2, 4, 7, 8>>,
       <<18, 1, 4, 8, 8>>,
       <<18, 2, 5, 7, 8>>,
       <<19, 1, 5, 8, 8>> >>,
    << <<10, 1, 6, 6, 6>>,
       <<11, 3, 6, 6, 7>>,
       <<12, 3, 6, 6, 8>>,
       <<13, 3, 6, 7, 7>>,
       <<14, 6, 6, 7, 8>>,
       <<15, 3, 6, 8, 8>>,
       <<16, 1, 7, 7, 7>>,
       <<17, 3, 7, 7, 8>>,
       <<18, 3, 7, 8, 8>>,
       <<19, 1, 8, 8, 8>> >>,
    << <<20, 1, 0, 0, 0, 0>>,
       <<21, 4, 0, 0, 0, 1>>,
       <<22, 4, 0, 0, 0, 2>>,
       <<23, 6, 0, 0, 1, 1>>,
       <<24, 12, 0, 0, 1, 2>>,
       <<25, 6, 0, 0, 2, 2>>,
       <<26, 4, 0, 1, 1, 1>>,
       <<27, 12, 0, 1, 1, 2>>,
       <<28, 12, 0, 1, 2, 2>>,
       <<29, 4, 0, 2, 2, 2>>,
       <<30, 1, 1, 1, 1, 1>>,
       <<31, 4, 1, 1, 1, 2>>,
       <<32, 6, 1, 1, 2, 2>>,
       <<33, 4, 1, 2, 2, 2>>,
       <<34, 1, 2, 2, 2, 2>> >>,
    << <<20, 1, 0, 0, 0, 3>>,
       <<21, 1, 0, 0, 0, 4>>,
       <<21, 3, 0, 0, 1, 3>>,
       <<22, 1, 0, 0, 0, 5>>,
       <<22, 3, 0, 0, 2, 3>>,
       <<23, 3, 0, 1, 1, 3>>,
       <<23, 3, 0, 0, 1, 4>>,
       <<24, 3, 0, 0, 2, 4>>,
       <<24, 3, 0, 0, 1, 5>>,
       <<24, 6, 0, 1, 2, 3>>,
       <<25, 3, 0, 2, 2, 3>>,
       <<25, 3, 0, 0, 2, 5>>,
       <<26, 1, 1, 1, 1, 3>>,
       <<26, 3, 0, 1, 1, 4>>,
       <<27, 3, 1, 1, 2, 3>>,
       <<27, 3, 0, 1, 1, 5>>,
       <<27, 6, 0, 1, 2, 4>>,
       <<28, 3, 1, 2, 2, 3>>,
       <<28, 3, 0, 2, 2, 4>>,
       <<28, 6, 0, 1, 2, 5>>,
       <<29, 1, 2, 2, 2, 3>>,
       <<29, 3, 0, 2, 2, 5>>,
       <<30, 1, 1, 1, 1, 4>>,
       <<31, 1, 1, 1, 1, 5>>,
       <<31, 3, 1, 1, 2, 4>>,
       <<32, 3, 1, 2, 2, 4>>,
       <<32, 3, 1, 1, 2, 5>>,
       <<33, 1, 2, 2, 2, 4>>,
       <<33, 3, 1, 2, 2, 5>>,
       <<34, 1, 2, 2, 2, 5>> >>,
    << <<20, 1, 0, 0, 0, 6>>,
       <<21, 1, 0, 0, 0, 7>>,
       <<21, 3, 0, 0, 1, 6>>,
       <<22, 1, 0, 0, 0, 8>>,
       <<22, 3, 0, 0, 2, 6>>,
       <<23, 3, 0, 1, 1, 6>>,
       <<23, 3, 0, 0, 1, 7>>,
       <<24, 3, 0, 0, 2, 7>>,
       <<24, 3, 0, 0, 1, 8>>,
       <<24, 6, 0, 1, 2, 6>>,
       <<25, 3, 0, 2, 2, 6>>,
       <<25, 3, 0, 0, 2, 8>>,
       <<26, 1, 1, 1, 1, 6>>,
       <<26, 3, 0, 1, 1, 7>>,
       <<27, 3, 1, 1, 2, 6>>,
       <<27, 3, 0, 1, 1, 8>>,
       <<27, 6, 0, 1, 2, 7>>,
       <<28, 3, 1, 2, 2, 6>>,
       <<28, 3, 0, 2, 2, 7>>,
       <<28, 6, 0, 1, 2, 8>>,
       <<29, 1, 2, 2, 2, 6>>,
       <<29, 3, 0, 2, 2, 8>>,
       <<30, 1, 1, 1, 1, 7>>,
       <<31, 1, 1, 1, 1, 8>>,
       <<31, 3, 1, 1, 2, 7>>,
       <<32, 3, 1, 2, 2, 7>>,
       <<32, 3, 1, 1, 2, 8>>,
       <<33, 1, 2, 2, 2, 7>>,
       <<33, 3, 1, 2, 2, 8>>,
       <<34, 1, 2, 2, 2, 8>> >>,
    << <<20, 1, 0, 0, 3, 3>>,
       <<21, 2, 0, 1, 3, 3>>,
       <<21, 2, 0, 0, 3, 4>>,
       <<22, 2, 0, 2, 3, 3>>,
       <<22, 2, 0, 0, 3, 5>>,
       <<23, 1, 1, 1, 3, 3>>,
       <<23, 1, 0, 0, 4, 4>>,
       <<23, 4, 0, 1, 3, 4>>,
       <<24, 2, 1, 2, 3, 3>>,
       <<24, 2, 0, 0, 4, 5>>,
       <<24, 4, 0, 2, 3, 4>>,
       <<24, 4, 0, 1, 3, 5>>,
       <<25, 1, 2, 2, 3, 3>>,
       <<25, 1, 0, 0, 5, 5>>,
       <<25, 4, 0, 2, 3, 5>>,
       <<26, 2, 1, 1, 3, 4>>,
       <<26, 2, 0, 1, 4, 4>>,
       <<27, 2, 1, 1, 3, 5>>,
       <<27, 2, 0, 2, 4, 4>>,
       <<27, 4, 1, 2, 3, 4>>,
       <<27, 4, 0, 1, 4, 5>>,
       <<28, 2, 2, 2, 3, 4>>,
       <<28, 2, 0, 1, 5, 5>>,
       <<28, 4, 1, 2, 3, 5>>,
       <<28, 4, 0, 2, 4, 5>>,
       <<29, 2, 2, 2, 3, 5>>,
       <<29, 2, 0, 2, 5, 5>>,
       <<30, 1, 1, 1, 4, 4>>,
       <<31, 2, 1, 2, 4, 4>>,
       <<31, 2, 1, 1, 4, 5>>,
       <<32, 1, 2, 2, 4, 4>>,
       <<32, 1, 1, 1, 5, 5>>,
       <<32, 4, 1, 2, 4, 5>>,
       <<33, 2, 2, 2, 4, 5>>,
       <<33, 2, 1, 2, 5, 5>>,
       <<34, 1, 2, 2, 5, 5>> >>,
    << <<20, 1, 0, 0, 3, 6>>,
       <<21, 1, 0, 0, 4, 6>>,
       <<21, 1, 0, 0, 3, 7>>,
       <<21, 2, 0, 1, 3, 6>>,
       <<22, 1, 0, 0, 5, 6>>,
       <<22, 1, 0, 0, 3, 8>>,
       <<22, 2, 0, 2, 3, 6>>,
       <<23, 1, 1, 1, 3, 6>>,
       <<23, 1, 0, 0, 4, 7>>,
       <<23, 2, 0, 1, 4, 6>>,
       <<23, 2, 0, 1, 3, 7>>,
       <<24, 1, 0, 0, 5, 7>>,
       <<24, 1, 0, 0, 4, 8>>,
       <<24, 2, 1, 2, 3, 6>>,
       <<24, 2, 0, 2, 4, 6>>,
       <<24, 2, 0, 2, 3, 7>>,
       <<24, 2, 0, 1, 5, 6>>,
       <<24, 2, 0, 1, 3, 8>>,
       <<25, 1, 2, 2, 3, 6>>,
       <<25, 1, 0, 0, 5, 8>>,
       <<25, 2, 0, 2, 5, 6>>,
       <<25, 2, 0, 2, 3, 8>>,
       <<26, 1, 1, 1, 4, 6>>,
       <<26, 1, 1, 1, 3, 7>>,
       <<26, 2, 0, 1, 4, 7>>,
       <<27, 1, 1, 1, 5, 6>>,
       <<27, 1, 1, 1, 3, 8>>,
       <<27, 2, 1, 2, 4, 6>>,
       <<27, 2, 1, 2, 3, 7>>,
       <<27, 2, 0, 2, 4, 7>>,
       <<27, 2, 0, 1, 5, 7>>,
       <<27, 2, 0, 1, 4, 8>>,
       <<28, 1, 2, 2, 4, 6>>,
       <<28, 1, 2, 2, 3, 7>>,
       <<28, 2, 1, 2, 5, 6>>,
       <<28, 2, 1, 2, 3, 8>>,
       <<28, 2, 0, 2, 5, 7>>,
       <<28, 2, 0, 2, 4, 8>>,
       <<28, 2, 0, 1, 5, 8>>,
       <<29, 1, 2, 2, 5, 6>>,
       <<29, 1, 2, 2, 3, 8>>,
       <<29, 2, 0, 2, 5, 8>>,
       <<30, 1, 1, 1, 4, 7>>,
       <<31, 1, 1, 1, 5, 7>>,
       <<31, 1, 1, 1, 4, 8>>,
       <<31, 2, 1, 2, 4, 7>>,
       <<32, 1, 2, 2, 4, 7>>,
       <<32, 1, 1, 1, 5, 8>>,
       <<32, 2, 1, 2, 5, 7>>,
       <<32, 2, 1, 2, 4, 8>>,
       <<33, 1, 2, 2, 5, 7>>,
       <<33, 1, 2, 2, 4, 8>>,
       <<33, 2, 1, 2, 5, 8>>,
       <<34, 1, 2, 2, 5, 8>> >>,
    << <<20, 1, 0, 0, 6, 6>>,
       <<21, 2, 0, 1, 6, 6>>,
       <<21, 2, 0, 0, 6, 7>>,
       <<22, 2, 0, 2, 6, 6>>,
       <<22, 2, 0, 0, 6, 8>>,
       <<23, 1, 1, 1, 6, 6>>,
       <<23, 1, 0, 0, 7, 7>>,
       <<23, 4, 0, 1, 6, 7>>,
       <<24, 2, 1, 2, 6, 6>>,
       <<24, 2, 0, 0, 7, 8>>,
       <<24, 4, 0, 2, 6, 7>>,
       <<24, 4, 0, 1, 6, 8>>,
       <<25, 1, 2, 2, 6, 6>>,
       <<25, 1, 0, 0, 8, 8>>,
       <<25, 4, 0, 2, 6, 8>>,
       <<26, 2, 1, 1, 6, 7>>,
       <<26, 2, 0, 1, 7, 7>>,
       <<27, 2, 1, 1, 6, 8>>,
       <<27, 2, 0, 2, 7, 7>>,
       <<27, 4, 1, 2, 6, 7>>,
       <<27, 4, 0, 1, 7, 8>>,
       <<28, 2, 2, 2, 6, 7>>,
       <<28, 2, 0, 1, 8, 8>>,
       <<28, 4, 1, 2, 6, 8>>,
       <<28, 4, 0, 2, 7, 8>>,
       <<29, 2, 2, 2, 6, 8>>,
       <<29, 2, 0, 2, 8, 8>>,
       <<30, 1, 1, 1, 7, 7>>,
       <<31, 2, 1, 2, 7, 7>>,
       <<31, 2, 1, 1, 7, 8>>,
       <<32, 1, 2, 2, 7, 7>>,
       <<32, 1, 1, 1, 8, 8>>,
       <<32, 4, 1, 2, 7, 8>>,
       <<33, 2, 2, 2, 7, 8>>,
       <<33, 2, 1, 2, 8, 8>>,
       <<34, 1, 2, 2, 8, 8>> >>,
    << <<20, 1, 0, 3, 3, 3>>,
       <<21, 1, 1, 3, 3, 3>>,
       <<21, 3, 0, 3, 3, 4>>,
       <<22, 1, 2, 3, 3, 3>>,
       <<22, 3, 0, 3, 3, 5>>,
       <<23, 3, 1, 3, 3, 4>>,
       <<23, 3, 0, 3, 4, 4>>,
       <<24, 3, 2, 3, 3, 4>>,
       <<24, 3, 1, 3, 3, 5>>,
       <<24, 6, 0, 3, 4, 5>>,
       <<25, 3, 2, 3, 3, 5>>,
       <<25, 3, 0, 3, 5, 5>>,
       <<26, 1, 0, 4, 4, 4>>,
       <<26, 3, 1, 3, 4, 4>>,
       <<27, 3, 2, 3, 4, 4>>,
       <<27, 3, 0, 4, 4, 5>>,
       <<27, 6, 1, 3, 4, 5>>,
       <<28, 3, 1, 3, 5, 5>>,
       <<28, 3, 0, 4, 5, 5>>,
       <<28, 6, 2, 3, 4, 5>>,
       <<29, 1, 0, 5, 5, 5>>,
       <<29, 3, 2, 3, 5, 5>>,
       <<30, 1, 1, 4, 4, 4>>,
       <<31, 1, 2, 4, 4, 4>>,
       <<31, 3, 1, 4, 4, 5>>,
       <<32, 3, 2, 4, 4, 5>>,
       <<32, 3, 1, 4, 5, 5>>,
       <<33, 1, 1, 5, 5, 5>>,
       <<33, 3, 2, 4, 5, 5>>,
       <<34, 1, 2, 5, 5, 5>> >>,
    << <<20, 1, 0, 3, 3, 6>>,
       <<21, 1, 1, 3, 3, 6>>,
       <<21, 1, 0, 3, 3, 7>>,
       <<21, 2, 0, 3, 4, 6>>,
       <<22, 1, 2, 3, 3, 6>>,
       <<22, 1, 0, 3, 3, 8>>,
       <<22, 2, 0, 3, 5, 6>>,
       <<23, 1, 1, 3, 3, 7>>,
       <<23, 1, 0, 4, 4, 6>>,
       <<23, 2, 1, 3, 4, 6>>,
       <<23, 2, 0, 3, 4, 7>>,
       <<24, 1, 2, 3, 3, 7>>,
       <<24, 1, 1, 3, 3, 8>>,
       <<24, 2, 2, 3, 4, 6>>,
       <<24, 2, 1, 3, 5, 6>>,
       <<24, 2, 0, 4, 5, 6>>,
       <<24, 2, 0, 3, 5, 7>>,
       <<24, 2, 0, 3, 4, 8>>,
       <<25, 1, 2, 3, 3, 8>>,
       <<25, 1, 0, 5, 5, 6>>,
       <<25, 2, 2, 3, 5, 6>>,
       <<25, 2, 0, 3, 5, 8>>,
       <<26, 1, 1, 4, 4, 6>>,
       <<26, 1, 0, 4, 4, 7>>,
       <<26, 2, 1, 3, 4, 7>>,
       <<27, 1, 2, 4, 4, 6>>,
       <<27, 1, 0, 4, 4, 8>>,
       <<27, 2, 2, 3, 4, 7>>,
       <<27, 2, 1, 4, 5, 6>>,
       <<27, 2, 1, 3, 5, 7>>,
       <<27, 2, 1, 3, 4, 8>>,
       <<27, 2, 0, 4, 5, 7>>,
       <<28, 1, 1, 5, 5, 6>>,
       <<28, 1, 0, 5, 5, 7>>,
       <<28, 2, 2, 4, 5, 6>>,
       <<28, 2, 2, 3, 5, 7>>,
       <<28, 2, 2, 3, 4, 8>>,
       <<28, 2, 1, 3, 5, 8>>,
       <<28, 2, 0, 4, 5, 8>>,
       <<29, 1, 2, 5, 5, 6>>,
       <<29, 1, 0, 5, 5, 8>>,
       <<29, 2, 2, 3, 5, 8>>,
       <<30, 1, 1, 4, 4, 7>>,
       <<31, 1, 2, 4, 4, 7>>,
       <<31, 1, 1, 4, 4, 8>>,
       <<31, 2, 1, 4, 5, 7>>,
       <<32, 1, 2, 4, 4, 8>>,
       <<32, 1, 1, 5, 5, 7>>,
       <<32, 2, 2, 4, 5, 7>>,
       <<32, 2, 1, 4, 5, 8>>,
       <<33, 1, 2, 5, 5, 7>>,
       <<33, 1, 1, 5, 5, 8>>,
       <<33, 2, 2, 4, 5, 8>>,
       <<34, 1, 2, 5, 5, 8>> >>,
    << <<20, 1, 0, 3, 6, 6>>,
       <<21, 1, 1, 3, 6, 6>>,
       <<21, 1, 0, 4, 6, 6>>,
       <<21, 2, 0, 3, 6, 7>>,
       <<22, 1, 2, 3, 6, 6>>,
       <<22, 1, 0, 5, 6, 6>>,
       <<22, 2, 0, 3, 6, 8>>,
       <<23, 1, 1, 4, 6, 6>>,
       <<23, 1, 0, 3, 7, 7>>,
       <<23, 2, 1, 3, 6, 7>>,
       <<23, 2, 0, 4, 6, 7>>,
       <<24, 1, 2, 4, 6, 6>>,
       <<24, 1, 1, 5, 6, 6>>,
       <<24, 2, 2, 3, 6, 7>>,
       <<24, 2, 1, 3, 6, 8>>,
       <<24, 2, 0, 5, 6, 7>>,
       <<24, 2, 0, 4, 6, 8>>,
       <<24, 2, 0, 3, 7, 8>>,
       <<25, 1, 2, 5, 6, 6>>,
       <<25, 1, 0, 3, 8, 8>>,
       <<25, 2, 2, 3, 6, 8>>,
       <<25, 2, 0, 5, 6, 8>>,
       <<26, 1, 1, 3, 7, 7>>,
       <<26, 1, 0, 4, 7, 7>>,
       <<26, 2, 1, 4, 6, 7>>,
       <<27, 1, 2, 3, 7, 7>>,
       <<27, 1, 0, 5, 7, 7>>,
       <<27, 2, 2, 4, 6, 7>>,
       <<27, 2, 1, 5, 6, 7>>,
       <<27, 2, 1, 4, 6, 8>>,
       <<27, 2, 1, 3, 7, 8>>,
       <<27, 2, 0, 4, 7, 8>>,
       <<28, 1, 1, 3, 8, 8>>,
       <<28, 1, 0, 4, 8, 8>>,
       <<28, 2, 2, 5, 6, 7>>,
       <<28, 2, 2, 4, 6, 8>>,
       <<28, 2, 2, 3, 7, 8>>,
       <<28, 2, 1, 5, 6, 8>>,
       <<28, 2, 0, 5, 7, 8>>,
       <<29, 1, 2, 3, 8, 8>>,
       <<29, 1, 0, 5, 8, 8>>,
       <<29, 2, 2, 5, 6, 8>>,
       <<30, 1, 1, 4, 7, 7>>,
       <<31, 1, 2, 4, 7, 7>>,
       <<31, 1, 1, 5, 7, 7>>,
       <<31, 2, 1, 4, 7, 8>>,
       <<32, 1, 2, 5, 7, 7>>,
       <<32, 1, 1, 4, 8, 8>>,
       <<32, 2, 2, 4, 7, 8>>,
       <<32, 2, 1, 5, 7, 8>>,
       <<33, 1, 2, 4, 8, 8>>,
       <<33, 1, 1, 5, 8, 8>>,
       <<33, 2, 2, 5, 7, 8>>,
       <<34, 1, 2, 5, 8, 8>> >>,
    << <<20, 1, 0, 6, 6, 6>>,
       <<21, 1, 1, 6, 6, 6>>,
       <<21, 3, 0, 6, 6, 7>>,
       <<22, 1, 2, 6, 6, 6>>,
       <<22, 3, 0, 6, 6, 8>>,
       <<23, 3, 1, 6, 6, 7>>,
       <<23, 3, 0, 6, 7, 7>>,
       <<24, 3, 2, 6, 6, 7>>,
       <<24, 3, 1, 6, 6, 8>>,
       <<24, 6, 0, 6, 7, 8>>,
       <<25, 3, 2, 6, 6, 8>>,
       <<25, 3, 0, 6, 8, 8>>,
       <<26, 1, 0, 7, 7, 7>>,
       <<26, 3, 1, 6, 7, 7>>,
       <<27, 3, 2, 6, 7, 7>>,
       <<27, 3, 0, 7, 7, 8>>,
       <<27, 6, 1, 6, 7, 8>>,
       <<28, 3, 1, 6, 8, 8>>,
       <<28, 3, 0, 7, 8, 8>>,
       <<28, 6, 2, 6, 7, 8>>,
       <<29, 1, 0, 8, 8, 8>>,
       <<29, 3, 2, 6, 8, 8>>,
       <<30, 1, 1, 7, 7, 7>>,
       <<31, 1, 2, 7, 7, 7>>,
       <<31, 3, 1, 7, 7, 8>>,
       <<32, 3, 2, 7, 7, 8>>,
       <<32, 3, 1, 7, 8, 8>>,
       <<33, 1, 1, 8, 8, 8>>,
       <<33, 3, 2, 7, 8, 8>>,
       <<34, 1, 2, 8, 8, 8>> >>,
    << <<20, 1, 3, 3, 3, 3>>,
       <<21, 4, 3, 3, 3, 4>>,
       <<22, 4, 3, 3, 3, 5>>,
       <<23, 6, 3, 3, 4, 4>>,
       <<24, 12, 3, 3, 4, 5>>,
       <<25, 6, 3, 3, 5, 5>>,
       <<26, 4, 3, 4, 4, 4>>,
       <<27, 12, 3, 4, 4, 5>>,
       <<28, 12, 3, 4, 5, 5>>,
       <<29, 4, 3, 5, 5, 5>>,
       <<30, 1, 4, 4, 4, 4>>,
       <<31, 4, 4, 4, 4, 5>>,
       <<32, 6, 4, 4, 5, 5>>,
       <<33, 4, 4, 5, 5, 5>>,
       <<34, 1, 5, 5, 5, 5>> >>,
    << <<20, 1, 3, 3, 3, 6>>,
       <<21, 1, 3, 3, 3, 7>>,
       <<21, 3, 3, 3, 4, 6>>,
       <<22, 1, 3, 3, 3, 8>>,
       <<22, 3, 3, 3, 5, 6>>,
       <<23, 3, 3, 4, 4, 6>>,
       <<23, 3, 3, 3, 4, 7>>,
       <<24, 3, 3, 3, 5, 7>>,
       <<24, 3, 3, 3, 4, 8>>,
       <<24, 6, 3, 4, 5, 6>>,
       <<25, 3, 3, 5, 5, 6>>,
       <<25, 3, 3, 3, 5, 8>>,
       <<26, 1, 4, 4, 4, 6>>,
       <<26, 3, 3, 4, 4, 7>>,
       <<27, 3, 4, 4, 5, 6>>,
       <<27, 3, 3, 4, 4, 8>>,
       <<27, 6, 3, 4, 5, 7>>,
       <<28, 3, 4, 5, 5, 6>>,
       <<28, 3, 3, 5, 5, 7>>,
       <<28, 6, 3, 4, 5, 8>>,
       <<29, 1, 5, 5, 5, 6>>,
       <<29, 3, 3, 5, 5, 8>>,
       <<30, 1, 4, 4, 4, 7>>,
       <<31, 1, 4, 4, 4, 8>>,
       <<31, 3, 4, 4, 5, 7>>,
       <<32, 3, 4, 5, 5, 7>>,
       <<32, 3, 4, 4, 5, 8>>,
       <<33, 1, 5, 5, 5, 7>>,
       <<33, 3, 4, 5, 5, 8>>,
       <<34, 1, 5, 5, 5, 8>> >>,
    << <<20, 1, 3, 3, 6, 6>>,
       <<21, 2, 3, 4, 6, 6>>,
       <<21, 2, 3, 3, 6, 7>>,
       <<22, 2, 3, 5, 6, 6>>,
       <<22, 2, 3, 3, 6, 8>>,
       <<23, 1, 4, 4, 6, 6>>,
       <<23, 1, 3, 3, 7, 7>>,
       <<23, 4, 3, 4, 6, 7>>,
       <<24, 2, 4, 5, 6, 6>>,
       <<24, 2, 3, 3, 7, 8>>,
       <<24, 4, 3, 5, 6, 7>>,
       <<24, 4, 3, 4, 6, 8>>,
       <<25, 1, 5, 5, 6, 6>>,
       <<25, 1, 3, 3, 8, 8>>,
       <<25, 4, 3, 5, 6, 8>>,
       <<26, 2, 4, 4, 6, 7>>,
       <<26, 2, 3, 4, 7, 7>>,
       <<27, 2, 4, 4, 6, 8>>,
       <<27, 2, 3, 5, 7, 7>>,
       <<27, 4, 4, 5, 6, 7>>,
       <<27, 4, 3, 4, 7, 8>>,
       <<28, 2, 5, 5, 6, 7>>,
       <<28, 2, 3, 4, 8, 8>>,
       <<28, 4, 4, 5, 6, 8>>,
       <<28, 4, 3, 5, 7, 8>>,
       <<29, 2, 5, 5, 6, 8>>,
       <<29, 2, 3, 5, 8, 8>>,
       <<30, 1, 4, 4, 7, 7>>,
       <<31, 2, 4, 5, 7, 7>>,
       <<31, 2, 4, 4, 7, 8>>,
       <<32, 1, 5, 5, 7, 7>>,
       <<32, 1, 4, 4, 8, 8>>,
       <<32, 4, 4, 5, 7, 8>>,
       <<33, 2, 5, 5, 7, 8>>,
       <<33, 2, 4, 5, 8, 8>>,
       <<34, 1, 5, 5, 8, 8>> >>,
    << <<20, 1, 3, 6, 6, 6>>,
       <<21, 1, 4, 6, 6, 6>>,
       <<21, 3, 3, 6, 6, 7>>,
       <<22, 1, 5, 6, 6, 6>>,
       <<22, 3, 3, 6, 6, 8>>,
       <<23, 3, 4, 6, 6, 7>>,
       <<23, 3, 3, 6, 7, 7>>,
       <<24, 3, 5, 6, 6, 7>>,
       <<24, 3, 4, 6, 6, 8>>,
       <<24, 6, 3, 6, 7, 8>>,
       <<25, 3, 5, 6, 6, 8>>,
       <<25, 3, 3, 6, 8, 8>>,
       <<26, 1, 3, 7, 7, 7>>,
       <<26, 3, 4, 6, 7, 7>>,
       <<27, 3, 5, 6, 7, 7>>,
       <<27, 3, 3, 7, 7, 8>>,
       <<27, 6, 4, 6, 7, 8>>,
       <<28, 3, 4, 6, 8, 8>>,
       <<28, 3, 3, 7, 8, 8>>,
       <<28, 6, 5, 6, 7, 8>>,
       <<29, 1, 3, 8, 8, 8>>,
       <<29, 3, 5, 6, 8, 8>>,
       <<30, 1, 4, 7, 7, 7>>,
       <<31, 1, 5, 7, 7, 7>>,
       <<31, 3, 4, 7, 7, 8>>,
       <<32, 3, 5, 7, 7, 8>>,
       <<32, 3, 4, 7, 8, 8>>,
       <<33, 1, 4, 8, 8, 8>>,
       <<33, 3, 5, 7, 8, 8>>,
       <<34, 1, 5, 8, 8, 8>> >>,
    << <<20, 1, 6, 6, 6, 6>>,
       <<21, 4, 6, 6, 6, 7>>,
       <<22, 4, 6, 6, 6, 8>>,
       <<23, 6, 6, 6, 7, 7>>,
       <<24, 12, 6, 6, 7, 8>>,
       <<25, 6, 6, 6, 8, 8>>,
       <<26, 4, 6, 7, 7, 7>>,
       <<27, 12, 6, 7, 7, 8>>,
       <<28, 12, 6, 7, 8, 8>>,
       <<29, 4, 6, 8, 8, 8>>,
       <<30, 1, 7, 7, 7, 7>>,
       <<31, 4, 7, 7, 7, 8>>,
       <<32, 6, 7, 7, 8, 8>>,
       <<33, 4, 7, 8, 8, 8>>,
       <<34, 1, 8, 8, 8, 8>> >>
  >>

(***************************************************************************)
(* Rotation engine: rotate_moments_low.                                    *)
(***************************************************************************)
\* rmat.ravel(): the 3x3 matrix flattened row-major into 9 entries.
ravel_columns(rmat) ==
  <<rmat[1][1], rmat[2][1], rmat[3][1],
    rmat[1][2], rmat[2][2], rmat[3][2],
    rmat[1][3], rmat[2][3], rmat[3][3]>>

ravel(rmat) == rmat[1] \o rmat[2] \o rmat[3]

\* The inner loop "for j in rule[2:]: factor *= rcoeffs[j]", entered at the
\* k-th item of the rule.
RECURSIVE factor_loop(_, _, _, _)
factor_loop(rule, rcoeffs, k, factor) ==
  IF k > Len(rule) THEN factor
  ELSE factor_loop(rule, rcoeffs, k + 1, factor * rcoeffs[rule[k] + 1])

\* "factor = rule[1]": the running factor starts at the rule's coefficient.
initial_factor(rule) == rule[2]

\* "result += moments[i]*factor".
accumulate_assign(result, term) == term

accumulate(result, term) == result + term

\* Indexing a sequence of n items with a non-negative index raises IndexError.
out_of_range(index, n) == index >= n

\* The outer loop "for rule in rules", entered at the k-th rule.  It yields
\* the sum, or IndexError at the first rule that indexes past rcoeffs or
\* past moments.
RECURSIVE rules_loop(_, _, _, _, _)
rules_loop(rules, rcoeffs, moments, k, result) ==
  IF k > Len(rules) THEN [err |-> "none", val |-> result]
  ELSE LET rule == rules[k]
           i == rule[1]
       IN  IF \E p \in 3..Len(rule) : out_of_range(rule[p], Len(rcoeffs))
           THEN [err |-> "IndexError", val |-> 0]
           ELSE IF out_of_range(i, Len(moments))
           THEN [err |-> "IndexError", val |-> 0]
           ELSE rules_loop(rules, rcoeffs, moments, k + 1,
                           accumulate(result,
                                      moments[i + 1] *
                                      factor_loop(rule, rcoeffs, 3, initial_factor(rule))))

rotate_moments_low_skip(rules, rmat, moments) ==
  rules_loop(SelectSeq(rules, LAMBDA rule : rule[1] < Len(moments)),
             ravel(rmat), moments, 1, 0)

rotate_moments_low(rules, rmat, moments) ==
  rules_loop(rules, ravel(rmat), moments, 1, 0)

(***************************************************************************)
(* Pieces of get_cartesian_powers and rotate_cartesian_moments.            *)
(***************************************************************************)
\* np.zeros((n, 3), dtype=int); a negative n raises ValueError.
zeros_rows(n) == [k \in 1..n |-> <<0, 0, 0>>]

\* np.zeros(ncart).
zeros(n) == [k \in 1..n |-> 0]

negative_dimension_or_empty(n) == n <= 0

negative_dimension(n) == n < 0

\* xrange(0, lmax+1): the value past the last l.
xrange_l_stop(lmax) == lmax + 1

\* xrange(l+1, -1, -1): the first nx.
xrange_nx_start(l) == l + 1

\* xrange(l-nx, -1, -1): the first ny.
xrange_ny_start_l(l, nx) == l

xrange_ny_start_plus(l, nx) == l - nx + 1

xrange_ny_start(l, nx) == l - nx

\* nz = l - ny - nx
nz_of_ny(l, nx, ny) == l - ny

nz_of(l, nx, ny) == l - ny - nx

\* The row [nx, ny, nz] written at cartesian_powers[counter].
powers_row_swapped(nx, ny, nz) == <<ny, nx, nz>>

powers_row(nx, ny, nz) == <<nx, ny, nz>>

\* "factor *= rcoeffs[j]" on a factor taken from the table: the product is
\* bound to the local name and the item of the table stays as it is.
table_after_multiply_in_place(table, d, k, product) ==
  [table EXCEPT ![d][k][2] = product]

table_after_multiply(table, d, k, product) == table

\* xrange(ncart): the value past the last i.
xrange_i_stop_tabulated(ncart) ==
  IF ncart < Len(cartesian_transforms) THEN ncart ELSE Len(cartesian_transforms)

xrange_i_stop_short(ncart) == ncart - 1

xrange_i_stop(ncart) == ncart

\* cartesian_transforms[i] raises IndexError past the end of the table.
no_rules(i) == out_of_range(i, Len(cartesian_transforms))

(***************************************************************************)
(* Inputs of the calls.                                                    *)
(***************************************************************************)
ShellArgs == (0 - NegRange)..MaxLmax

Lengths == 0..MaxLen

UnitVector(n, j) == [k \in 1..n |-> IF k = j THEN 1 ELSE 0]

RampVector(n) == [k \in 1..n |-> (k % 7) - 3]

WaveVector(n) == [k \in 1..n |-> ((k * k + 1) % 5) - 1]

MomentVectors(n) ==
  {UnitVector(n, j) : j \in 1..n} \cup {RampVector(n), WaveVector(n)}

Identity == << <<1, 0, 0>>, <<0, 1, 0>>, <<0, 0, 1>> >>

RotZ90 == << <<0, -1, 0>>, <<1, 0, 0>>, <<0, 0, 1>> >>

RotZ180 == << <<-1, 0, 0>>, <<0, -1, 0>>, <<0, 0, 1>> >>

\* The engine does not validate orthogonality: a matrix that is no rotation.
Shear == << <<1, 2, 0>>, <<0, 1, -1>>, <<2, 0, 1>> >>

Matrices == {Identity, RotZ90, RotZ180, Shear}

\* What a caller holds of a call that has not returned a value.
NoValue == <<>>

(***************************************************************************)
(* State.                                                                  *)
(*   pc, op, err, ret : position, the function called, the exception       *)
(*                      raised and the value returned to the caller        *)
(*   arg              : the l or lmax of an enumerator or size call        *)
(*   l, nx, ny, nz, counter, cartesian_powers, it_l, it_nx, it_ny :        *)
(*                      locals and xrange iterators of get_cartesian_powers*)
(*   moments, rmat    : the caller's arguments of rotate_cartesian_moments *)
(*   ncart, i, result : its locals                                         *)
(*   chained, moments0, rmat0 : the caller rotates the vector returned by  *)
(*                      its previous call, which rotated moments0 by rmat0 *)
(***************************************************************************)
VARIABLES pc, op, err, ret, arg,
          l, nx, ny, nz, counter, cartesian_powers, it_l, it_nx, it_ny,
          moments, rmat, ncart, i, result,
          chained, moments0, rmat0

powers_vars == <<l, nx, ny, nz, counter, cartesian_powers, it_l, it_nx, it_ny>>

rotate_vars == <<moments, rmat, ncart, i, result>>

chain_vars == <<chained, moments0, rmat0>>

vars == <<pc, op, err, ret, arg,
          l, nx, ny, nz, counter, cartesian_powers, it_l, it_nx, it_ny,
          moments, rmat, ncart, i, result,
          chained, moments0, rmat0>>

(***************************************************************************)
(* State shared by, and private to, concurrent callers of                  *)
(* rotate_cartesian_moments.                                               *)
(*   rule_table : the module-level list cartesian_transforms, one object   *)
(*                shared by every caller                                   *)
(*   frames     : per caller, its arguments (moments, rmat), the locals of *)
(*                rotate_cartesian_moments (i, result) and of              *)
(*                rotate_moments_low (k: rules consumed, src: "i" of the   *)
(*                rule, factor, j: next item of the rule, low: "result"),  *)
(*                and what it got back (ret, err)                          *)
(***************************************************************************)
VARIABLES rule_table, frames

conc_vars == <<rule_table, frames>>

all_vars == <<vars, conc_vars>>

\* The callers that run concurrently.
Callers == {"a", "b"}

IdleFrame ==
  [pc |-> "idle", moments |-> <<>>, rmat |-> Identity,
   i |-> 0, result |-> <<>>,
   k |-> 0, src |-> 0, factor |-> 0, j |-> 0, low |-> 0,
   ret |-> NoValue, err |-> "none"]

ConcIdle ==
  /\ rule_table = cartesian_transforms
  /\ frames = [c \in Callers |-> IdleFrame]

PowersIdle ==
  /\ l = 0 /\ nx = 0 /\ ny = 0 /\ nz = 0 /\ counter = 0
  /\ cartesian_powers = <<>>
  /\ it_l = 0 /\ it_nx = 0 /\ it_ny = 0

RotateIdle ==
  /\ moments = <<>> /\ rmat = Identity /\ ncart = 0 /\ i = 0 /\ result = <<>>

ChainIdle ==
  /\ chained = FALSE /\ moments0 = <<>> /\ rmat0 = Identity

Init ==
  /\ pc = "idle" /\ op = "none" /\ err = "none" /\ ret = NoValue /\ arg = 0
  /\ PowersIdle
  /\ RotateIdle
  /\ ChainIdle
  /\ ConcIdle

(***************************************************************************)
(* The size functions: one call each.                                      *)
(***************************************************************************)
CallSize(name, value) ==
  /\ pc = "idle"
  /\ pc' = "done" /\ op' = name /\ err' = "none" /\ ret' = value
  /\ UNCHANGED <<powers_vars, rotate_vars, chain_vars>>
  /\ UNCHANGED conc_vars

Call_get_ncart ==
  \E a \in ShellArgs : arg' = a /\ CallSize("get_ncart", get_ncart(a))

Call_get_ncart_cumul ==
  \E a \in ShellArgs : arg' = a /\ CallSize("get_ncart_cumul", get_ncart_cumul(a))

Call_get_npure ==
  \E a \in ShellArgs : arg' = a /\ CallSize("get_npure", get_npure(a))

Call_get_npure_cumul ==
  \E a \in ShellArgs : arg' = a /\ CallSize("get_npure_cumul", get_npure_cumul(a))

(***************************************************************************)
(* get_cartesian_powers(lmax).                                             *)
(***************************************************************************)
\* The call, up to the first "for": the array is allocated, or np.zeros
\* raises on a negative number of rows.
Call_get_cartesian_powers ==
  /\ pc = "idle"
  /\ \E lmax \in ShellArgs :
       /\ arg' = lmax
       /\ op' = "get_cartesian_powers"
       /\ IF negative_dimension(get_ncart_cumul(lmax))
          THEN /\ pc' = "done" /\ err' = "ValueError" /\ ret' = NoValue
               /\ UNCHANGED cartesian_powers
          ELSE /\ pc' = "for_l" /\ err' = "none" /\ ret' = NoValue
               /\ cartesian_powers' = zeros_rows(get_ncart_cumul(lmax))
  /\ counter' = 0 /\ it_l' = 0
  /\ UNCHANGED <<l, nx, ny, nz, it_nx, it_ny, rotate_vars, chain_vars>>
  /\ UNCHANGED conc_vars

\* "for l in xrange(0, lmax+1)": the next l, or "return cartesian_powers".
ForL ==
  /\ pc = "for_l"
  /\ IF it_l < xrange_l_stop(arg)
     THEN /\ l' = it_l /\ it_l' = it_l + 1
          /\ it_nx' = xrange_nx_start(it_l)
          /\ pc' = "for_nx"
          /\ UNCHANGED <<ret, nx, ny, nz, counter, cartesian_powers, it_ny>>
     ELSE /\ pc' = "done" /\ ret' = cartesian_powers
          /\ l' = 0 /\ nx' = 0 /\ ny' = 0 /\ nz' = 0 /\ counter' = 0
          /\ cartesian_powers' = <<>>
          /\ it_l' = 0 /\ it_nx' = 0 /\ it_ny' = 0
  /\ UNCHANGED <<op, err, arg, rotate_vars, chain_vars>>
  /\ UNCHANGED conc_vars

\* "for nx in xrange(l+1, -1, -1)": the next nx, or back to the loop over l.
ForNx ==
  /\ pc = "for_nx"
  /\ IF it_nx > -1
     THEN /\ nx' = it_nx /\ it_nx' = it_nx - 1
          /\ it_ny' = xrange_ny_start(l, it_nx)
          /\ pc' = "for_ny"
     ELSE /\ pc' = "for_l"
          /\ UNCHANGED <<nx, it_nx, it_ny>>
  /\ UNCHANGED <<op, err, ret, arg, l, ny, nz, counter, cartesian_powers, it_l,
                 rotate_vars, chain_vars>>
  /\ UNCHANGED conc_vars

\* "for ny in xrange(l-nx, -1, -1)": the next ny and the body of the loop,
\* or back to the loop over nx.  A write past the array raises IndexError.
ForNy ==
  /\ pc = "for_ny"
  /\ IF it_ny > -1
     THEN /\ ny' = it_ny /\ it_ny' = it_ny - 1
          /\ nz' = nz_of(l, nx, it_ny)
          /\ IF out_of_range(counter, Len(cartesian_powers))
             THEN /\ pc' = "done" /\ err' = "IndexError" /\ ret' = NoValue
                  /\ UNCHANGED <<counter, cartesian_powers>>
             ELSE /\ cartesian_powers' =
                       [cartesian_powers EXCEPT
                          ![counter + 1] = powers_row(nx, it_ny, nz_of(l, nx, it_ny))]
                  /\ counter' = counter + 1
                  /\ UNCHANGED <<pc, err, ret>>
     ELSE /\ pc' = "for_nx"
          /\ UNCHANGED <<err, ret, ny, nz, counter, cartesian_powers, it_ny>>
  /\ UNCHANGED <<op, arg, l, nx, it_l, it_nx, rotate_vars, chain_vars>>
  /\ UNCHANGED conc_vars

(***************************************************************************)
(* rotate_cartesian_moments(moments, rmat).                                *)
(***************************************************************************)
\* The call, up to the "for": ncart = moments.shape[0], result = zeros.
EnterRotate(m, r) ==
  /\ op' = "rotate_cartesian_moments"
  /\ moments' = m /\ rmat' = r
  /\ ncart' = Len(m) /\ result' = zeros(Len(m)) /\ i' = 0
  /\ pc' = "for_i" /\ err' = "none" /\ ret' = NoValue
  /\ UNCHANGED <<arg, powers_vars>>
  /\ UNCHANGED conc_vars

\* A caller rotates a moment vector of its own.
Call_rotate_cartesian_moments ==
  /\ pc = "idle"
  /\ \E n \in Lengths : \E m \in MomentVectors(n) : \E r \in Matrices :
       EnterRotate(m, r)
  /\ UNCHANGED chain_vars

\* A caller rotates the vector its previous call returned.
Call_rotate_again ==
  /\ pc = "done" /\ op = "rotate_cartesian_moments" /\ err = "none"
  /\ ~chained
  /\ chained' = TRUE /\ moments0' = moments /\ rmat0' = rmat
  /\ \E r \in Matrices : EnterRotate(ret, r)

\* "for i in xrange(ncart)": the next i and the body of the loop, or
\* "return result".  An exception ends the call: the caller gets no value
\* and the locals are gone.
ForI ==
  /\ pc = "for_i"
  /\ IF i < xrange_i_stop(ncart)
     THEN IF no_rules(i)
          THEN /\ pc' = "done" /\ err' = "IndexError" /\ ret' = NoValue
               /\ ncart' = 0 /\ i' = 0 /\ result' = <<>>
          ELSE LET low == rotate_moments_low(cartesian_transforms[i + 1], rmat, moments)
               IN  IF low.err # "none"
                   THEN /\ pc' = "done" /\ err' = low.err /\ ret' = NoValue
                        /\ ncart' = 0 /\ i' = 0 /\ result' = <<>>
                   ELSE /\ result' = [result EXCEPT ![i + 1] = low.val]
                        /\ i' = i + 1
                        /\ UNCHANGED <<pc, err, ret, ncart>>
     ELSE /\ pc' = "done" /\ ret' = result
          /\ ncart' = 0 /\ i' = 0 /\ result' = <<>>
          /\ UNCHANGED err
  /\ UNCHANGED <<op, arg, moments, rmat, powers_vars, chain_vars>>
  /\ UNCHANGED conc_vars

\* The caller drops what the call left and is ready for another call.
Return ==
  /\ pc = "done"
  /\ pc' = "idle" /\ op' = "none" /\ err' = "none" /\ ret' = NoValue /\ arg' = 0
  /\ l' = 0 /\ nx' = 0 /\ ny' = 0 /\ nz' = 0 /\ counter' = 0
  /\ cartesian_powers' = <<>>
  /\ it_l' = 0 /\ it_nx' = 0 /\ it_ny' = 0
  /\ moments' = <<>> /\ rmat' = Identity /\ ncart' = 0 /\ i' = 0 /\ result' = <<>>
  /\ chained' = FALSE /\ moments0' = <<>> /\ rmat0' = Identity
  /\ UNCHANGED conc_vars

Next ==
  \/ Call_get_ncart
  \/ Call_get_ncart_cumul
  \/ Call_get_npure
  \/ Call_get_npure_cumul
  \/ Call_get_cartesian_powers
  \/ ForL
  \/ ForNx
  \/ ForNy
  \/ Call_rotate_cartesian_moments
  \/ Call_rotate_again
  \/ ForI
  \/ Return

Spec == Init /\ [][Next]_vars

(***************************************************************************)
(* Concurrent callers of rotate_cartesian_moments.  Each caller has its    *)
(* own arguments and frames; the steps of the callers interleave at every  *)
(* index, rule and factor.                                                 *)
(***************************************************************************)
ConcLengths == 0..MaxConcLen

ConcVectors(n) == {RampVector(n), WaveVector(n)}

ConcMatrices == {RotZ180, Shear}

SetFrame(c, frame) == frames' = [frames EXCEPT ![c] = frame]

\* An exception ends the call: no value, and the locals are gone.
Raised(frame, error) ==
  [IdleFrame EXCEPT !.pc = "done", !.err = error,
                    !.moments = frame.moments, !.rmat = frame.rmat]

\* The call, up to the "for": result = np.zeros(ncart).
CCall(c) ==
  /\ frames[c].pc = "idle"
  /\ \E n \in ConcLengths : \E m \in ConcVectors(n) : \E r \in ConcMatrices :
       SetFrame(c, [IdleFrame EXCEPT !.pc = "for_i",
                                     !.moments = m, !.rmat = r,
                                     !.result = zeros(n)])
  /\ UNCHANGED <<vars, rule_table>>

\* "for i in xrange(ncart)": the next i, cartesian_transforms[i] and the
\* entry of rotate_moments_low (result = 0), or "return result".
CForI(c) ==
  LET f == frames[c]
  IN  /\ f.pc = "for_i"
      /\ IF f.i < xrange_i_stop(Len(f.moments))
         THEN IF out_of_range(f.i, Len(rule_table))
              THEN SetFrame(c, Raised(f, "IndexError"))
              ELSE SetFrame(c, [f EXCEPT !.pc = "for_rule", !.k = 0, !.low = 0])
         ELSE SetFrame(c, [IdleFrame EXCEPT !.pc = "done", !.ret = f.result,
                                            !.moments = f.moments, !.rmat = f.rmat])
      /\ UNCHANGED <<vars, rule_table>>

\* "for rule in rules": the next rule with i = rule[0], factor = rule[1],
\* or the return of rotate_moments_low and "result[i] = ...".
CForRule(c) ==
  LET f == frames[c]
      rules == rule_table[f.i + 1]
  IN  /\ f.pc = "for_rule"
      /\ IF f.k < Len(rules)
         THEN SetFrame(c, [f EXCEPT !.pc = "for_j", !.k = f.k + 1, !.j = 3,
                                    !.src = rules[f.k + 1][1],
                                    !.factor = initial_factor(rules[f.k + 1])])
         ELSE SetFrame(c, [f EXCEPT !.pc = "for_i", !.i = f.i + 1,
                                    !.result = [f.result EXCEPT ![f.i + 1] = f.low],
                                    !.k = 0, !.src = 0, !.factor = 0, !.j = 0,
                                    !.low = 0])
      /\ UNCHANGED <<vars, rule_table>>

\* "for j in rule[2:]": factor *= rcoeffs[j] for the next j, or
\* "result += moments[i]*factor".
CForJ(c) ==
  LET f == frames[c]
      rule == rule_table[f.i + 1][f.k]
      rcoeffs == ravel(f.rmat)
  IN  /\ f.pc = "for_j"
      /\ IF f.j <= Len(rule)
         THEN IF out_of_range(rule[f.j], Len(rcoeffs))
              THEN /\ SetFrame(c, Raised(f, "IndexError"))
                   /\ UNCHANGED rule_table
              ELSE /\ SetFrame(c, [f EXCEPT !.j = f.j + 1,
                                            !.factor = f.factor * rcoeffs[rule[f.j] + 1]])
                   /\ rule_table' =
                        table_after_multiply(rule_table, f.i + 1, f.k,
                                             f.factor * rcoeffs[rule[f.j] + 1])
         ELSE /\ IF out_of_range(f.src, Len(f.moments))
                 THEN SetFrame(c, Raised(f, "IndexError"))
                 ELSE SetFrame(c, [f EXCEPT !.pc = "for_rule",
                                            !.low = accumulate(f.low, f.moments[f.src + 1] * f.factor)])
              /\ UNCHANGED rule_table
      /\ UNCHANGED vars

\* The caller drops what the call left and is ready for another call.
CReturn(c) ==
  /\ frames[c].pc = "done"
  /\ SetFrame(c, IdleFrame)
  /\ UNCHANGED <<vars, rule_table>>

ConcNext ==
  \/ \E c \in Callers : CCall(c)
  \/ \E c \in Callers : CForI(c)
  \/ \E c \in Callers : CForRule(c)
  \/ \E c \in Callers : CForJ(c)
  \/ \E c \in Callers : CReturn(c)

ConcSpec == Init /\ [][ConcNext]_all_vars

(***************************************************************************)
(* Properties.                                                             *)
(***************************************************************************)
RotateDone == pc = "done" /\ op = "rotate_cartesian_moments"

PowersDone == pc = "done" /\ op = "get_cartesian_powers"

\* The lengths of the moment vectors of lmax = 0..4.
SupportedLengths == {1, 4, 10, 20, 35}

\* Entry k of the flattened matrix is row k/3, column k%3.
MatrixEntry(r, k) == r[(k \div 3) + 1][(k % 3) + 1]

\* The product of the matrix entries a rule names, from its p-th item on.
RECURSIVE EntryProduct(_, _, _)
EntryProduct(rule, r, p) ==
  IF p > Len(rule) THEN 1
  ELSE MatrixEntry(r, rule[p]) * EntryProduct(rule, r, p + 1)

\* The sum of (source moment) x (coefficient) x (matrix entries) over the
\* rules from the k-th on.
RECURSIVE TermSum(_, _, _, _)
TermSum(rules, r, m, k) ==
  IF k > Len(rules) THEN 0
  ELSE m[rules[k][1] + 1] * rules[k][2] * EntryProduct(rules[k], r, 3)
       + TermSum(rules, r, m, k + 1)

\* The ordinary matrix product A.B.
MatMul(A, B) ==
  [r \in 1..3 |-> [c \in 1..3 |->
     A[r][1] * B[1][c] + A[r][2] * B[2][c] + A[r][3] * B[3][c]]]

\* The vector rotate_cartesian_moments returns for a supported length.
RotateAll(m, r) ==
  [d \in 1..Len(m) |-> rotate_moments_low(cartesian_transforms[d], r, m).val]

\* C1: rotating a moment vector of a supported length (1, 4, 10, 20, 35) by
\* the identity matrix returns the vector unchanged, component by component;
\* for each destination index the only rule whose matrix-entry product is
\* non-zero has that index as its source and coefficient 1.
C1_IdentityRotation ==
  (RotateDone /\ rmat = Identity /\ Len(moments) \in SupportedLengths) =>
    /\ err = "none"
    /\ ret = moments
    /\ \A d \in 1..Len(moments) :
         LET rules == cartesian_transforms[d]
             live == {k \in 1..Len(rules) : EntryProduct(rules[k], Identity, 3) # 0}
         IN  /\ Cardinality(live) = 1
             /\ \A k \in live : rules[k][1] = d - 1 /\ rules[k][2] = 1

C1_Witness ==
  /\ RotateDone /\ err = "none" /\ ~chained
  /\ rmat = Identity /\ moments = RampVector(35) /\ ret = RampVector(35)

\* C2: rotating by R1 and then by R2 gives the same vector as rotating once
\* by the matrix product R2.R1 (R2 on the left), for every supported length.
C2_Composition ==
  (RotateDone /\ chained /\ Len(moments0) \in SupportedLengths) =>
    /\ err = "none"
    /\ ret = RotateAll(moments0, MatMul(rmat, rmat0))

C2_Witness ==
  /\ RotateDone /\ chained /\ err = "none"
  /\ moments0 = WaveVector(35) /\ rmat0 = RotZ90 /\ rmat = Shear
  /\ MatMul(rmat, rmat0) # MatMul(rmat0, rmat)
  /\ ret # moments0

(***************************************************************************)
(* The multinomial expansion of a rotated monomial.                        *)
(***************************************************************************)
RECURSIVE Factorial(_)
Factorial(n) == IF n <= 0 THEN 1 ELSE n * Factorial(n - 1)

\* n! / (p! q! r!)
Multinomial(n, p, q, r) ==
  Factorial(n) \div (Factorial(p) * Factorial(q) * Factorial(r))

\* The number of ways to spread an exponent n over the three columns.
Spreads(n) == ((n + 2) * (n + 1)) \div 2

\* How many of a rule's matrix indexes equal k, or lie in the set S.
CountIndex(rule, k) == Cardinality({p \in 3..Len(rule) : rule[p] = k})

CountIn(rule, S) == Cardinality({p \in 3..Len(rule) : rule[p] \in S})

IndexCounts(rule) == [k \in 0..8 |-> CountIndex(rule, k)]

\* A rule of the moment with powers (a, b, c) is a term of
\* (R0 x + R1 y + R2 z)^a (R3 x + R4 y + R5 z)^b (R6 x + R7 y + R8 z)^c.
IsExpansionTerm(rule, abc, powers) ==
  /\ \A p \in 3..Len(rule) : rule[p] \in 0..8
  /\ CountIn(rule, 0..2) = abc[1]
  /\ CountIn(rule, 3..5) = abc[2]
  /\ CountIn(rule, 6..8) = abc[3]
  /\ rule[1] \in 0..(Len(powers) - 1)
  /\ powers[rule[1] + 1] = <<CountIn(rule, {0, 3, 6}),
                              CountIn(rule, {1, 4, 7}),
                              CountIn(rule, {2, 5, 8})>>
  /\ rule[2] = Multinomial(abc[1], CountIndex(rule, 0), CountIndex(rule, 1), CountIndex(rule, 2))
             * Multinomial(abc[2], CountIndex(rule, 3), CountIndex(rule, 4), CountIndex(rule, 5))
             * Multinomial(abc[3], CountIndex(rule, 6), CountIndex(rule, 7), CountIndex(rule, 8))

\* The rules of one moment are the terms of the expansion, each once: every
\* rule is a term, no two rules spread the exponents the same way, and there
\* are as many rules as ways to spread them.
IsExpansion(rules, abc, powers) ==
  /\ \A k \in 1..Len(rules) : IsExpansionTerm(rules[k], abc, powers)
  /\ \A j, k \in 1..Len(rules) :
       j # k => IndexCounts(rules[j]) # IndexCounts(rules[k])
  /\ Len(rules) = Spreads(abc[1]) * Spreads(abc[2]) * Spreads(abc[3])

\* C3: under the indexing of get_cartesian_powers(4), the rules of every
\* index 0..34 with powers (a, b, c) are exactly the terms of the multinomial
\* expansion: a matrix indexes in 0..2, b in 3..5, c in 6..8, column counts
\* equal to the powers at the source index, coefficient equal to the product
\* of the three multinomial coefficients, each admissible term exactly once.
C3_TableIsExpansion ==
  (PowersDone /\ arg >= 4 /\ err = "none") =>
    /\ Len(cartesian_transforms) = 35
    /\ Len(ret) >= 35
    /\ \A d \in 1..35 : IsExpansion(cartesian_transforms[d], ret[d], SubSeq(ret, 1, 35))

C3_Witness ==
  /\ PowersDone /\ arg = 4 /\ err = "none"
  /\ ret[5] = <<2, 0, 0>>
  /\ Len(cartesian_transforms[5]) = 6

\* The positions (0-based) of shell sh in the list of powers.
ShellPositions(sh) == get_ncart_cumul(sh - 1)..(get_ncart_cumul(sh) - 1)

\* C4: get_cartesian_powers(lmax), lmax >= 0, returns get_ncart_cumul(lmax)
\* triples; shell l occupies the positions get_ncart_cumul(l-1) ..
\* get_ncart_cumul(l)-1 and its triples are non-negative and sum to l.
C4_PowersCountAndSum ==
  (PowersDone /\ arg >= 0) =>
    /\ err = "none"
    /\ Len(ret) = get_ncart_cumul(arg)
    /\ \A sh \in 0..arg : \A p \in ShellPositions(sh) :
         /\ p + 1 \in 1..Len(ret)
         /\ \A c \in 1..3 : ret[p + 1][c] >= 0
         /\ ret[p + 1][1] + ret[p + 1][2] + ret[p + 1][3] = sh

C4_Witness ==
  /\ PowersDone /\ arg = 4 /\ err = "none"
  /\ Len(ret) = 35
  /\ ret[35] = <<0, 0, 4>>

C6_TooLongFails ==
  (op = "rotate_cartesian_moments" /\ Len(moments) > 35) =>
    /\ ret = NoValue
    /\ pc = "done" => err = "IndexError"

C6_Witness ==
  /\ RotateDone /\ Len(moments) = 36 /\ moments = RampVector(36)
  /\ err = "IndexError" /\ ret = NoValue

\* C7: a moment vector whose length n in 1..34 is no cumulative Cartesian
\* count (n not in {1, 4, 10, 20}) makes rotate_cartesian_moments fail: a
\* rule of a destination index below n has a source index >= n.
C7_ShapeMismatchFails ==
  (RotateDone /\ Len(moments) \in (1..34) \ {1, 4, 10, 20}) =>
    /\ err = "IndexError"
    /\ ret = NoValue
    /\ \E d \in 1..Len(moments) : \E k \in 1..Len(cartesian_transforms[d]) :
         cartesian_transforms[d][k][1] >= Len(moments)

C7_Witness ==
  /\ RotateDone /\ Len(moments) = 19 /\ moments = UnitVector(19, 19)
  /\ err = "IndexError" /\ ret = NoValue

\* C8: a call of rotate_cartesian_moments either returns a vector as long
\* as its input whose every component is the sum over the rules of that
\* index, or fails and hands the caller nothing; the caller never holds a
\* result with only some components computed.
C8_AllOrNothing ==
  (op = "rotate_cartesian_moments") =>
    /\ pc = "for_i" => ret = NoValue
    /\ pc = "done" =>
         \/ /\ err = "none"
            /\ Len(ret) = Len(moments)
            /\ \A d \in 1..Len(moments) :
                 ret[d] = TermSum(cartesian_transforms[d], rmat, moments, 1)
         \/ /\ err # "none"
            /\ ret = NoValue
            /\ result = <<>>

C8_Witness ==
  /\ RotateDone /\ Len(moments) = 12 /\ rmat = Shear
  /\ err = "IndexError" /\ ret = NoValue

SizeFunctions == {"get_ncart", "get_ncart_cumul", "get_npure", "get_npure_cumul"}

\* C9 as claimed: every negative shell index is rejected by
\* get_cartesian_powers and by the four size functions, and
\* get_cartesian_powers never fails for lmax >= 0.
C9_NegativeRejected ==
  (pc = "done" /\ op \in SizeFunctions \cup {"get_cartesian_powers"}) =>
    /\ arg < 0 => err # "none"
    /\ (op = "get_cartesian_powers" /\ arg >= 0) => err = "none"

\* C9 as amended: get_cartesian_powers(lmax) fails, with the ValueError of a
\* negative array dimension, exactly when lmax <= -4; for lmax in -3..-1 it
\* returns an empty array and for lmax >= 0 it never fails; the four size
\* functions never fail and return an integer for a negative shell index.
C9_NegativeHandling ==
  /\ PowersDone =>
       /\ arg <= -4 => err = "ValueError" /\ ret = NoValue
       /\ arg >= -3 => err = "none"
       /\ arg \in (-3)..(-1) => Len(ret) = 0
  /\ (pc = "done" /\ op \in SizeFunctions) =>
       /\ err = "none"
       /\ ret \in Int

C9_Witness ==
  /\ PowersDone /\ arg = -2 /\ err = "none" /\ Len(ret) = 0

RECURSIVE SumNcart(_)
SumNcart(lmax) == IF lmax < 0 THEN 0 ELSE get_ncart(lmax) + SumNcart(lmax - 1)

RECURSIVE SumNpure(_)
SumNpure(lmax) == IF lmax < 0 THEN 0 ELSE get_npure(lmax) + SumNpure(lmax - 1)

\* C10: for lmax >= 0, get_ncart_cumul(lmax) is the sum of get_ncart(l) and
\* get_npure_cumul(lmax) the sum of get_npure(l) over l = 0..lmax;
\* get_ncart(0..4) = 1, 3, 6, 10, 15, get_ncart_cumul(4) = 35 and
\* get_npure_cumul(4) = 25.
C10_CumulativeSums ==
  (pc = "done" /\ arg >= 0) =>
    /\ op = "get_ncart_cumul" => ret = SumNcart(arg)
    /\ op = "get_npure_cumul" => ret = SumNpure(arg)
    /\ (op = "get_ncart" /\ arg <= 4) => ret = <<1, 3, 6, 10, 15>>[arg + 1]
    /\ (op = "get_ncart_cumul" /\ arg = 4) => ret = 35
    /\ (op = "get_npure_cumul" /\ arg = 4) => ret = 25

C10_Witness ==
  /\ pc = "done" /\ op = "get_npure_cumul" /\ arg = 4 /\ ret = 25

\* C11: the size functions are exact: for l >= 0, (l+2)(l+1) is divisible by
\* 2 and (l+1)(l+2)(l+3) by 6, so the integer divisions of get_ncart and
\* get_ncart_cumul discard no remainder and return (l+1)(l+2)/2 and
\* (l+1)(l+2)(l+3)/6 exactly; get_npure returns 2l+1 and get_npure_cumul
\* returns (l+1)^2.
C11_ExactSizes ==
  (pc = "done" /\ arg >= 0 /\ op \in SizeFunctions) =>
    /\ err = "none"
    /\ op = "get_ncart" =>
         /\ ((arg + 2) * (arg + 1)) % 2 = 0
         /\ 2 * ret = (arg + 1) * (arg + 2)
    /\ op = "get_ncart_cumul" =>
         /\ ((arg + 1) * (arg + 2) * (arg + 3)) % 6 = 0
         /\ 6 * ret = (arg + 1) * (arg + 2) * (arg + 3)
    /\ op = "get_npure" => ret = 2 * arg + 1
    /\ op = "get_npure_cumul" => ret = (arg + 1) ^ 2

C11_Witness ==
  /\ pc = "done" /\ op = "get_ncart" /\ arg = 3 /\ ret = 10

\* C12 as claimed: rotating the vector [1, 0, 0] by diag(-1, -1, 1) with
\* rotate_cartesian_moments yields [-1, 0, 0].
C12_DipoleVectorOfThree ==
  (RotateDone /\ moments = <<1, 0, 0>> /\ rmat = RotZ180) =>
    /\ err = "none"
    /\ ret = <<-1, 0, 0>>

\* C12 as amended: a moment vector starts with the monopole, so the pure
\* dipole along x is [0, 1, 0, 0]; rotating it by diag(-1, -1, 1) yields
\* [0, -1, 0, 0].  The vector [1, 0, 0] has no supported length and the call
\* fails with an index error.
C12_DipoleWithMonopole ==
  /\ (RotateDone /\ moments = <<0, 1, 0, 0>> /\ rmat = RotZ180) =>
       /\ err = "none"
       /\ ret = <<0, -1, 0, 0>>
  /\ (RotateDone /\ moments = <<1, 0, 0>> /\ rmat = RotZ180) =>
       /\ err = "IndexError"
       /\ ret = NoValue

C12_Witness ==
  /\ RotateDone /\ ~chained /\ moments = <<0, 1, 0, 0>> /\ rmat = RotZ180
  /\ ret = <<0, -1, 0, 0>>

\* C15: the rule table has exactly get_ncart_cumul(4) = 35 items, one for
\* each global index 0..34 and none beyond; in every rule the source index
\* lies in 0..34, the coefficient is a positive integer and every matrix
\* index lies in 0..8.
C15_TableShape ==
  (pc = "idle" \/ (RotateDone /\ Len(moments) >= 35)) =>
    /\ Len(cartesian_transforms) = get_ncart_cumul(4)
    /\ Len(cartesian_transforms) = 35
    /\ \A n \in 0..MaxLen : no_rules(n) <=> n >= 35
    /\ \A d \in 1..Len(cartesian_transforms) :
         /\ Len(cartesian_transforms[d]) >= 1
         /\ \A k \in 1..Len(cartesian_transforms[d]) :
              LET rule == cartesian_transforms[d][k]
              IN  /\ Len(rule) >= 2
                  /\ rule[1] \in 0..34
                  /\ rule[2] \in Nat \ {0}
                  /\ \A p \in 3..Len(rule) : rule[p] \in 0..8
    /\ (RotateDone /\ Len(moments) = 35) => err = "none" /\ Len(ret) = 35
    /\ (RotateDone /\ Len(moments) > 35) => err = "IndexError"

C15_Witness ==
  /\ RotateDone /\ ~chained /\ err = "none"
  /\ moments = UnitVector(35, 35) /\ rmat = Shear
  /\ Len(ret) = 35

\* The list the loops "for l", "for nx from l down to 0", "for ny from l-nx
\* down to 0" emit: shell sh from the triple with nx = a and ny = b on.
RECURSIVE ShellFrom(_, _, _)
ShellFrom(sh, a, b) ==
  IF a < 0 THEN <<>>
  ELSE IF b < 0 THEN ShellFrom(sh, a - 1, sh - (a - 1))
  ELSE << <<a, b, sh - a - b>> >> \o ShellFrom(sh, a, b - 1)

RECURSIVE PowersFromL(_)
PowersFromL(lmax) ==
  IF lmax < 0 THEN <<>> ELSE PowersFromL(lmax - 1) \o ShellFrom(lmax, lmax, 0)

InPowersLoop ==
  op = "get_cartesian_powers" /\ pc \in {"for_l", "for_nx", "for_ny"}

\* C16: the nx loop of get_cartesian_powers starts at l+1, where the ny loop
\* is empty; at each write nz >= 0 and the counter is below
\* get_ncart_cumul(lmax); on return the counter equals get_ncart_cumul(lmax),
\* no row but the first is left (0, 0, 0), and the list equals the one of
\* the loop that starts at nx = l.
C16_LoopFromLPlusOne ==
  /\ InPowersLoop =>
       /\ nz >= 0
       /\ counter <= get_ncart_cumul(arg)
       /\ Len(cartesian_powers) = get_ncart_cumul(arg)
       /\ (pc = "for_nx" /\ it_nx > -1 /\ it_nx = it_l) =>
            /\ it_nx = l + 1
            /\ xrange_ny_start(l, it_nx) = -1
       /\ (pc = "for_ny" /\ nx = l + 1) => it_ny = -1
       /\ (pc = "for_ny" /\ it_ny > -1) =>
            /\ counter < get_ncart_cumul(arg)
            /\ nz_of(l, nx, it_ny) >= 0
       /\ (pc = "for_l" /\ ~(it_l < xrange_l_stop(arg))) =>
            counter = get_ncart_cumul(arg)
  /\ PowersDone =>
       /\ err # "IndexError"
       /\ (err = "none" /\ arg >= 0) =>
            /\ ret = PowersFromL(arg)
            /\ \A p \in 2..Len(ret) : ret[p] # <<0, 0, 0>>

C16_Witness ==
  /\ op = "get_cartesian_powers" /\ pc = "for_ny" /\ arg = 3
  /\ l = 2 /\ nx = 3 /\ it_ny = -1 /\ counter = 4

\* The shell of a global index (0-based), for the shells 0..4.
ShellOf(n) == CHOOSE sh \in 0..4 : n \in ShellPositions(sh)

\* C17: the transform is block-diagonal by shell: every rule of a
\* destination index in shell l has its source index in shell l and exactly
\* l matrix indexes.  So the monopole is invariant, and for supported
\* lengths n < n' rotating the first n components of a vector of length n'
\* gives the first n components of the rotated vector.
C17_BlockDiagonal ==
  (pc = "idle" \/ (RotateDone /\ err = "none" /\ Len(moments) \in SupportedLengths)) =>
    /\ \A d \in 1..Len(cartesian_transforms) :
         \A k \in 1..Len(cartesian_transforms[d]) :
           LET rule == cartesian_transforms[d][k]
           IN  /\ rule[1] \in ShellPositions(ShellOf(d - 1))
               /\ Len(rule) - 2 = ShellOf(d - 1)
    /\ RotateDone =>
         /\ ret[1] = moments[1]
         /\ \A n \in SupportedLengths :
              n < Len(moments) =>
                RotateAll(SubSeq(moments, 1, n), rmat) = SubSeq(ret, 1, n)

C17_Witness ==
  /\ RotateDone /\ err = "none" /\ chained
  /\ Len(moments) = 35 /\ rmat = Shear /\ rmat0 = RotZ90
  /\ moments0 = RampVector(35)
  /\ ret[1] = moments[1]

\* What a call returns when it runs alone: the vector of the rule sums, or
\* nothing after the first index without rules or with a rule that indexes
\* past the moments.
FailsAt(m, r, n) ==
  \/ no_rules(n)
  \/ rotate_moments_low(cartesian_transforms[n + 1], r, m).err # "none"

AloneOutcome(m, r) ==
  IF \E n \in 0..(Len(m) - 1) : FailsAt(m, r, n)
  THEN [err |-> "IndexError", ret |-> NoValue]
  ELSE [err |-> "none", ret |-> RotateAll(m, r)]

Outcome(frame) == [err |-> frame.err, ret |-> frame.ret]

\* One step keeps the rule table, coefficients included, and the arguments
\* of every running or finished call; finished calls with the same
\* arguments have the same outcome.
C13_Step ==
  /\ rule_table' = rule_table
  /\ \A c \in Callers :
       (frames[c].pc # "idle" /\ frames'[c].pc # "idle") =>
         /\ frames'[c].moments = frames[c].moments
         /\ frames'[c].rmat = frames[c].rmat
  /\ \A c, d \in Callers :
       ( /\ frames'[c].pc = "done" /\ frames'[d].pc = "done"
         /\ frames'[c].moments = frames'[d].moments
         /\ frames'[c].rmat = frames'[d].rmat )
       => Outcome(frames'[c]) = Outcome(frames'[d])

\* C13: rotate_cartesian_moments and rotate_moments_low have no side
\* effects: over every step of every call, successful or failing, the moment
\* vector, the matrix and every item of the rule table (the coefficients
\* that start the running factor included) stay as they are, so calls with
\* the same arguments return the same.
C13_NoSideEffects == [][C13_Step]_all_vars

C13_Witness ==
  /\ frames["a"].pc = "done" /\ frames["a"].err = "IndexError"
  /\ Len(frames["a"].moments) = 3 /\ frames["a"].rmat = Shear
  /\ frames["b"].pc = "done" /\ frames["b"].err = "none"
  /\ Len(frames["b"].moments) = 4 /\ frames["b"].rmat = Shear
  /\ rule_table = cartesian_transforms

\* C14: with the steps of concurrent callers interleaved in any order, each
\* caller gets what its call returns when it runs alone, and the shared rule
\* table is the same in every reachable state.
C14_ConcurrentCallers ==
  /\ rule_table = cartesian_transforms
  /\ \A c \in Callers :
       frames[c].pc = "done" =>
         Outcome(frames[c]) = AloneOutcome(frames[c].moments, frames[c].rmat)

C14_Witness ==
  /\ frames["a"].pc = "done" /\ frames["a"].err = "none"
  /\ Len(frames["a"].moments) = 4 /\ frames["a"].rmat = Shear
  /\ frames["a"].ret # frames["a"].moments
  /\ frames["b"].pc = "for_j" /\ frames["b"].i = 2 /\ frames["b"].k = 2
  /\ Len(frames["b"].moments) = 4 /\ frames["b"].rmat = RotZ180

====
